---- MODULE Spec2Model ----
(***************************************************************************)
(* Model of trust/strategies/scmi.py: the SCMI active-learning strategy.   *)
(* One SCMI instance is constructed with an args dictionary and three      *)
(* datasets; select(budget) is called on it any number of times.  Each     *)
(* call to a collaborator (embedding provider, kernel builder, objective   *)
(* constructor, maximizer) is recorded, in order, in the log `calls`.      *)
(* A select call takes two steps: everything up to the instantiation of    *)
(* the objective, then maximization and index extraction.                  *)
(***************************************************************************)
EXTENDS Integers, Sequences, FiniteSets, TLC

\* ------------------------------------------------------------------ bounds
\* The unlabeled dataset has 1..MaxUnlabeled points; the query and private
\* datasets have QuerySize and PrivateSize points.
MaxUnlabeled == 3
QuerySize == 2
PrivateSize == 1

\* ------------------------------------------------------- values and helpers
\* A local variable of select that has not been assigned.
Unbound == [unbound |-> TRUE]
\* An attribute that has never been set on the instance.
NoAttr == [noattr |-> TRUE]

EmptyDict == [k \in {} |-> TRUE]
Merge(f, g) ==
    [k \in (DOMAIN f) \cup (DOMAIN g) |-> IF k \in DOMAIN f THEN f[k] ELSE g[k]]
Option(k, vals) == {EmptyDict} \cup {[x \in {k} |-> v] : v \in vals}

\* The args dictionaries the instance is constructed with.
ScmiValues == {"flcmi", "logdetcmi", "logdetmi", "gcmi"}
EmbeddingValues == {"gradients", "features", "bogus"}
ArgsSpace ==
    {Merge(a, Merge(b, Merge(c, Merge(d, e)))) :
        a \in Option("scmi_function", ScmiValues),
        b \in Option("embedding_type", EmbeddingValues),
        c \in Option("keep_embedding", BOOLEAN),
        d \in Option("stopIfZeroGain", BOOLEAN),
        e \in Option("stopIfNegativeGain", BOOLEAN)}

\* Marginal gains reported by the maximizer; greedy gains of a submodular
\* objective never increase from one pick to the next.
Gains == {-1, 0, 1}
GainSeqs(len) ==
    {g \in [1..len -> Gains] : \A i \in 1..len : \A j \in 1..len : i < j => g[i] >= g[j]}
\* The order in which the objective makes the maximizer prefer the elements
\* of the ground set 0..n-1: sequences of distinct indices.
PickSeqs(n, len) ==
    {p \in [1..len -> 0..(n - 1)] : \A i \in 1..len : \A j \in 1..len : i # j => p[i] # p[j]}

VARIABLES
    args,                       \* self.args
    unlabeled_dataset,          \* len(self.unlabeled_dataset)
    query_dataset,              \* len(self.query_dataset)
    private_dataset,            \* len(self.private_dataset)
    unlabeled_data_embedding,   \* self.unlabeled_data_embedding
    query_embedding,            \* self.query_embedding
    private_embedding,          \* self.private_embedding
    pc,                         \* "new", "maximize", "returned" or "raised"
    budget,                     \* argument of the current (latest) select call
    calls,                      \* collaborator calls made in that call, in order
    raised,                     \* the exception that ended that call, or "none"
    obj,                        \* local obj of that call
    greedyList,                 \* local greedyList of that call
    greedyIndices               \* the list that call returned

vars == <<args, unlabeled_dataset, query_dataset, private_dataset,
          unlabeled_data_embedding, query_embedding, private_embedding,
          pc, budget, calls, raised, obj, greedyList, greedyIndices>>

\* ------------------------------------------------------------ configuration
Get(key, default) == IF key \in DOMAIN args THEN args[key] ELSE default

optimizer == Get("optimizer", "NaiveGreedy")
metric == Get("metric", "cosine")
eta == Get("eta", 1)
nu == Get("nu", 1)
gradType == Get("gradType", "bias_linear")
\* Mutant: the maximizer stops on zero gain unless told otherwise.
stopIfZeroGainDefaultTrue == Get("stopIfZeroGain", TRUE)
stopIfZeroGain == Get("stopIfZeroGain", FALSE)
stopIfNegativeGain == Get("stopIfNegativeGain", FALSE)
verbose == Get("verbose", FALSE)
embedding_type == Get("embedding_type", "gradients")
layer_name == IF embedding_type = "features" THEN Get("layer_name", "avgpool") ELSE "<unbound>"
keep_embedding == Get("keep_embedding", FALSE)
lambdaVal == Get("lambdaVal", 1)

\* ------------------------------------------------------------ collaborators
Size(dataset) ==
    CASE dataset = "unlabeled" -> unlabeled_dataset
      [] dataset = "query" -> query_dataset
      [] dataset = "private" -> private_dataset

\* The embedding provider of the Strategy base class: one row per example.
get_grad_embedding(dataset, predict_labels, grad_type) ==
    [dataset |-> dataset, rows |-> Size(dataset), kind |-> "gradients", param |-> grad_type]
get_feature_embedding(dataset, unlabeled, layer) ==
    [dataset |-> dataset, rows |-> Size(dataset), kind |-> "features", param |-> layer]

\* submodlib.helper.create_kernel: the kernel of X against X_rep (X itself
\* when X_rep is not given).
create_kernel(X, X_rep, m) ==
    [X |-> X.dataset, X_rep |-> IF X_rep = Unbound THEN "None" ELSE X_rep.dataset, metric |-> m]

\* obj.maximize: the greedy loop.  picks[i] is the element with the best
\* marginal gain at step i and gains[i] that gain.
RECURSIVE GreedyLoop(_, _, _, _, _, _, _)
GreedyLoop(i, b, picks, gains, stopZero, stopNegative, acc) ==
    IF i > b THEN acc
    ELSE IF (gains[i] < 0 /\ stopNegative) \/ (gains[i] = 0 /\ stopZero) THEN acc
    ELSE GreedyLoop(i + 1, b, picks, gains, stopZero, stopNegative,
                    Append(acc, <<picks[i], gains[i]>>))
maximize(b, picks, gains, stopZero, stopNegative) ==
    GreedyLoop(1, b, picks, gains, stopZero, stopNegative, <<>>)

\* ------------------------------------------------------------------ select
\* A frame holds the locals of a running select call, the log of the
\* collaborator calls made so far, the exception raised (if any) and the
\* instance attributes select assigns.
Frame0 ==
    [exc |-> "none", calls |-> <<>>,
     unlabeled_data_embedding |-> Unbound, query_embedding |-> Unbound,
     private_embedding |-> Unbound,
     data_sijs |-> Unbound, query_query_sijs |-> Unbound,
     private_private_sijs |-> Unbound, query_private_sijs |-> Unbound,
     query_sijs |-> Unbound, private_sijs |-> Unbound,
     obj |-> Unbound,
     self_unlabeled_data_embedding |-> unlabeled_data_embedding,
     self_query_embedding |-> query_embedding,
     self_private_embedding |-> private_embedding]

Raise(f, e) == IF f.exc # "none" THEN f ELSE [f EXCEPT !.exc = e]

\* local = collaborator(...): the call is logged; the call numbered failAt
\* raises instead of returning.
CallExt(f, failAt, entry, local, val) ==
    IF f.exc # "none" THEN f
    ELSE IF Len(f.calls) + 1 = failAt
         THEN [f EXCEPT !.calls = Append(@, entry), !.exc = "ExternalError"]
         ELSE [f EXCEPT !.calls = Append(@, entry), ![local] = val]

\* the three get_grad_embedding calls
GradEmbeddings(f, failAt) ==
    LET f1 == CallExt(f, failAt,
                      [fn |-> "get_grad_embedding", dataset |-> "unlabeled"],
                      "unlabeled_data_embedding",
                      get_grad_embedding("unlabeled", TRUE, gradType))
        f2 == CallExt(f1, failAt,
                      [fn |-> "get_grad_embedding", dataset |-> "query"],
                      "query_embedding",
                      get_grad_embedding("query", FALSE, gradType))
    IN  CallExt(f2, failAt,
                [fn |-> "get_grad_embedding", dataset |-> "private"],
                "private_embedding",
                get_grad_embedding("private", FALSE, gradType))

\* the three get_feature_embedding calls
FeatureEmbeddings(f, failAt) ==
    LET f1 == CallExt(f, failAt,
                      [fn |-> "get_feature_embedding", dataset |-> "unlabeled"],
                      "unlabeled_data_embedding",
                      get_feature_embedding("unlabeled", TRUE, layer_name))
        f2 == CallExt(f1, failAt,
                      [fn |-> "get_feature_embedding", dataset |-> "query"],
                      "query_embedding",
                      get_feature_embedding("query", FALSE, layer_name))
    IN  CallExt(f2, failAt,
                [fn |-> "get_feature_embedding", dataset |-> "private"],
                "private_embedding",
                get_feature_embedding("private", FALSE, layer_name))

\* Mutant: every embedding_type other than "features" is taken for "gradients".
ComputeEmbeddingsUnchecked(f, failAt) ==
    IF embedding_type = "features" THEN FeatureEmbeddings(f, failAt)
    ELSE GradEmbeddings(f, failAt)

\* Compute Embeddings
ComputeEmbeddings(f, failAt) ==
    IF embedding_type = "gradients" THEN GradEmbeddings(f, failAt)
    ELSE IF embedding_type = "features" THEN FeatureEmbeddings(f, failAt)
    ELSE Raise(f, "ValueError")

\* Mutant: the query and private embeddings are stored in each other's field.
KeepEmbeddingSwapped(f) ==
    IF f.exc # "none" \/ ~keep_embedding THEN f
    ELSE [f EXCEPT !.self_unlabeled_data_embedding = f.unlabeled_data_embedding,
                   !.self_private_embedding = f.query_embedding,
                   !.self_query_embedding = f.private_embedding]

\* Mutant: the embeddings are retained whatever keep_embedding says.
KeepEmbeddingAlways(f) ==
    IF f.exc # "none" THEN f
    ELSE [f EXCEPT !.self_unlabeled_data_embedding = f.unlabeled_data_embedding,
                   !.self_private_embedding = f.private_embedding,
                   !.self_query_embedding = f.query_embedding]

\* if(keep_embedding): retain the three embeddings on the instance
KeepEmbedding(f) ==
    IF f.exc # "none" \/ ~keep_embedding THEN f
    ELSE [f EXCEPT !.self_unlabeled_data_embedding = f.unlabeled_data_embedding,
                   !.self_private_embedding = f.private_embedding,
                   !.self_query_embedding = f.query_embedding]

KernelEntry(k) == [fn |-> "create_kernel", X |-> k.X, X_rep |-> k.X_rep]

\* Mutant: the test names the log-determinant variant as the objective
\* dispatch does.
BuildsExtraKernelsLogdetcmi == args["scmi_function"] = "logdetcmi"

\* the test that guards the three extra kernels
BuildsExtraKernels == args["scmi_function"] = "logdetmi"

\* Compute the kernels
ComputeKernels(f, failAt) ==
    LET k1 == create_kernel(f.unlabeled_data_embedding, Unbound, metric)
        f1 == CallExt(f, failAt, KernelEntry(k1), "data_sijs", k1)
        f2 == IF f1.exc # "none" THEN f1
              ELSE IF "scmi_function" \notin DOMAIN args THEN Raise(f1, "KeyError")
              ELSE IF BuildsExtraKernels THEN
                  LET kqq == create_kernel(f1.query_embedding, Unbound, metric)
                      kpp == create_kernel(f1.private_embedding, Unbound, metric)
                      kqp == create_kernel(f1.private_embedding, f1.query_embedding, metric)
                      g1 == CallExt(f1, failAt, KernelEntry(kqq), "query_query_sijs", kqq)
                      g2 == CallExt(g1, failAt, KernelEntry(kpp), "private_private_sijs", kpp)
                  IN  CallExt(g2, failAt, KernelEntry(kqp), "query_private_sijs", kqp)
              ELSE f1
        kq == create_kernel(f.query_embedding, f.unlabeled_data_embedding, metric)
        kp == create_kernel(f.private_embedding, f.unlabeled_data_embedding, metric)
        f3 == CallExt(f2, failAt, KernelEntry(kq), "query_sijs", kq)
    IN  CallExt(f3, failAt, KernelEntry(kp), "private_sijs", kp)

\* Instantiate the objective
MakeObjective(f, failAt) ==
    LET f1 == IF f.exc = "none" /\ args["scmi_function"] = "flcmi"
              THEN CallExt(f, failAt,
                           [fn |-> "FacilityLocationConditionalMutualInformationFunction"],
                           "obj",
                           [cls |-> "flcmi", n |-> f.unlabeled_data_embedding.rows,
                            num_queries |-> f.query_embedding.rows,
                            num_privates |-> f.private_embedding.rows,
                            data_sijs |-> f.data_sijs, query_sijs |-> f.query_sijs,
                            private_sijs |-> f.private_sijs,
                            magnificationEta |-> eta, privacyHardness |-> nu])
              ELSE f
    IN  IF f1.exc = "none" /\ args["scmi_function"] = "logdetcmi"
        THEN IF f1.query_query_sijs = Unbound \/ f1.private_private_sijs = Unbound
                \/ f1.query_private_sijs = Unbound
             THEN Raise(f1, "UnboundLocalError")
             ELSE CallExt(f1, failAt,
                          [fn |-> "LogDeterminantConditionalMutualInformationFunction"],
                          "obj",
                          [cls |-> "logdetcmi", n |-> f1.unlabeled_data_embedding.rows,
                           num_queries |-> f1.query_embedding.rows,
                           num_privates |-> f1.private_embedding.rows,
                           data_sijs |-> f1.data_sijs, query_sijs |-> f1.query_sijs,
                           private_sijs |-> f1.private_sijs,
                           query_query_sijs |-> f1.query_query_sijs,
                           private_private_sijs |-> f1.private_private_sijs,
                           query_private_sijs |-> f1.query_private_sijs,
                           magnificationEta |-> eta, privacyHardness |-> nu,
                           lambdaVal |-> lambdaVal])
        ELSE f1

\* Everything select does before it calls obj.maximize
BeforeMaximize(failAt) ==
    MakeObjective(ComputeKernels(KeepEmbedding(ComputeEmbeddings(Frame0, failAt)), failAt), failAt)

\* Mutant: both components of every pair are returned.
ExtractIndicesFlattened(list) ==
    [i \in 1..(2 * Len(list)) |-> list[(i + 1) \div 2][IF i % 2 = 1 THEN 1 ELSE 2]]
\* Mutant: the second component (the gain) of every pair is returned.
ExtractIndicesGains(list) == [i \in 1..Len(list) |-> list[i][2]]
\* Mutant: the indices are returned last pick first.
ExtractIndicesReversed(list) == [i \in 1..Len(list) |-> list[Len(list) + 1 - i][1]]

\* greedyIndices = [x[0] for x in greedyList]
ExtractIndices(list) == [i \in 1..Len(list) |-> list[i][1]]

\* select, from its first line to the instantiation of the objective.
\* failAt = 0: no collaborator raises; otherwise the failAt-th call does.
select_begin(b, failAt) ==
    /\ pc # "maximize"
    /\ \E f \in {BeforeMaximize(failAt)} :
        /\ failAt <= Len(f.calls)
        /\ budget' = b
        /\ calls' = f.calls
        /\ raised' = f.exc
        /\ pc' = IF f.exc = "none" THEN "maximize" ELSE "raised"
        /\ obj' = f.obj
        /\ unlabeled_data_embedding' = f.self_unlabeled_data_embedding
        /\ query_embedding' = f.self_query_embedding
        /\ private_embedding' = f.self_private_embedding
    /\ greedyList' = <<>>
    /\ greedyIndices' = <<>>
    /\ UNCHANGED <<args, unlabeled_dataset, query_dataset, private_dataset>>

\* select, from greedyList = obj.maximize(...) to its return.
\* fails: the maximizer raises; picks, gains: what the objective makes it choose.
select_return(picks, gains) ==
    LET list == maximize(budget, picks, gains, stopIfZeroGain, stopIfNegativeGain) IN
    /\ greedyList' = list
    /\ greedyIndices' = ExtractIndices(list)
    /\ pc' = "returned"
    /\ UNCHANGED raised

select_maximize ==
    /\ pc = "maximize"
    /\ IF obj = Unbound THEN
            /\ raised' = "UnboundLocalError"
            /\ pc' = "raised"
            /\ UNCHANGED <<calls, greedyList, greedyIndices>>
       ELSE
            /\ calls' = Append(calls, [fn |-> "maximize", budget |-> budget])
            /\ \E fails \in BOOLEAN :
                IF fails THEN
                    /\ raised' = "ExternalError"
                    /\ pc' = "raised"
                    /\ UNCHANGED <<greedyList, greedyIndices>>
                ELSE \E picks \in PickSeqs(unlabeled_dataset, budget) :
                        \E gains \in GainSeqs(budget) : select_return(picks, gains)
    /\ UNCHANGED <<args, unlabeled_dataset, query_dataset, private_dataset,
                   unlabeled_data_embedding, query_embedding, private_embedding,
                   budget, obj>>

\* ----------------------------------------------------------- specification
Init ==
    /\ args \in ArgsSpace
    /\ unlabeled_dataset \in 1..MaxUnlabeled
    /\ query_dataset = QuerySize
    /\ private_dataset = PrivateSize
    /\ unlabeled_data_embedding = NoAttr
    /\ query_embedding = NoAttr
    /\ private_embedding = NoAttr
    /\ pc = "new"
    /\ budget = 0
    /\ calls = <<>>
    /\ raised = "none"
    /\ obj = Unbound
    /\ greedyList = <<>>
    /\ greedyIndices = <<>>

Next ==
    \/ \E b \in 1..unlabeled_dataset : \E failAt \in 0..Len(BeforeMaximize(0).calls) :
            select_begin(b, failAt)
    \/ select_maximize

Spec == Init /\ [][Next]_vars

\* ------------------------------------------------------------- properties
Ended == pc \in {"returned", "raised"}

HasKey(key) == key \in DOMAIN args
ScmiIs(v) == HasKey("scmi_function") /\ args["scmi_function"] = v
ScmiSupported == ScmiIs("flcmi") \/ ScmiIs("logdetcmi")
EmbeddingTypeValid ==
    ~HasKey("embedding_type") \/ args["embedding_type"] \in {"gradients", "features"}
FlagOff(key) == ~HasKey(key) \/ args[key] = FALSE
KeepOn == HasKey("keep_embedding") /\ args["keep_embedding"] = TRUE

EmbeddingCalls ==
    {i \in DOMAIN calls : calls[i].fn \in {"get_grad_embedding", "get_feature_embedding"}}
KernelCalls == {i \in DOMAIN calls : calls[i].fn = "create_kernel"}
ObjectiveCalls ==
    {i \in DOMAIN calls :
        calls[i].fn \in {"FacilityLocationConditionalMutualInformationFunction",
                         "LogDeterminantConditionalMutualInformationFunction"}}
MaximizeCalls == {i \in DOMAIN calls : calls[i].fn = "maximize"}
KernelBuilt(X, X_rep) ==
    \E i \in KernelCalls : calls[i].X = X /\ calls[i].X_rep = X_rep
\* every kernel call that happened precedes every objective instantiation
KernelBuiltBeforeObjective(X, X_rep) ==
    \E i \in KernelCalls :
        /\ calls[i].X = X /\ calls[i].X_rep = X_rep
        /\ \A j \in ObjectiveCalls : i < j

NoRepeats(seq) == \A i \in DOMAIN seq : \A j \in DOMAIN seq : i # j => seq[i] # seq[j]
InRange(seq) == \A i \in DOMAIN seq : seq[i] \in 0..(unlabeled_dataset - 1)

\* the embedding select computes for a dataset under the configured type
Computed(dataset) ==
    IF Get("embedding_type", "gradients") = "gradients"
    THEN get_grad_embedding(dataset, dataset = "unlabeled", gradType)
    ELSE get_feature_embedding(dataset, dataset = "unlabeled", layer_name)
Fields == <<unlabeled_data_embedding, query_embedding, private_embedding>>
ComputedFields == <<Computed("unlabeled"), Computed("query"), Computed("private")>>
\* all three embedding calls of the current call have returned
EmbeddingsComputed ==
    /\ Cardinality(EmbeddingCalls) = 3
    /\ ~(Len(calls) = 3 /\ raised = "ExternalError")

\* C1: whenever select(budget) returns, for a positive budget not larger
\* than the unlabeled dataset, the returned list has at most budget entries.
Thm_C1 ==
    (pc = "returned" /\ budget \in 1..unlabeled_dataset) => Len(greedyIndices) <= budget
Witness_C1 ==
    pc = "returned" /\ budget = unlabeled_dataset /\ budget >= 2 /\ Len(greedyIndices) = budget

\* C2: a list returned by select(budget) has no repeated index and every
\* index in it lies in [0, unlabeled_dataset_size).
Thm_C2 ==
    pc = "returned" => (NoRepeats(greedyIndices) /\ InRange(greedyIndices))
Witness_C2 ==
    pc = "returned" /\ Len(greedyIndices) >= 2 /\ greedyIndices[1] > greedyIndices[2]

\* C3 as stated: with scmi_function absent or unsupported, select raises and
\* at that moment no create_kernel call has happened in the call.
Orig_C3 ==
    (Ended /\ ~ScmiSupported /\ raised # "ExternalError")
        => (pc = "raised" /\ KernelCalls = {})
\* C3 amended: with scmi_function absent or unsupported, select never
\* returns, instantiates no objective and never calls the maximizer; unless
\* an unsupported embedding_type (ValueError) or a failing collaborator ends
\* the call first, it raises KeyError after exactly one create_kernel call
\* when the key is absent, and UnboundLocalError after all the kernels the
\* code builds for that value (three, six for 'logdetmi') otherwise.
Thm_C3 ==
    (Ended /\ ~ScmiSupported) =>
        /\ pc = "raised"
        /\ ObjectiveCalls = {} /\ MaximizeCalls = {}
        /\ IF ~EmbeddingTypeValid THEN raised = "ValueError"
           ELSE raised \in {"ExternalError",
                            IF HasKey("scmi_function") THEN "UnboundLocalError" ELSE "KeyError"}
        /\ raised = "KeyError" => Cardinality(KernelCalls) = 1
        /\ raised = "UnboundLocalError" =>
                Cardinality(KernelCalls) = IF ScmiIs("logdetmi") THEN 6 ELSE 3
Witness_C3 ==
    pc = "raised" /\ ~HasKey("scmi_function") /\ raised = "KeyError"
        /\ Cardinality(KernelCalls) = 1

\* C4: with embedding_type neither 'gradients' nor 'features', select raises
\* and has made no call to the embedding provider, for any dataset.
Thm_C4 ==
    (pc # "new" /\ ~EmbeddingTypeValid) =>
        (pc = "raised" /\ raised = "ValueError" /\ EmbeddingCalls = {})
Witness_C4 ==
    pc = "raised" /\ ~EmbeddingTypeValid /\ raised = "ValueError" /\ calls = <<>>

\* C5: with scmi_function='logdetcmi', a valid embedding_type, default
\* lambdaVal and a positive budget not larger than the unlabeled dataset,
\* select finishes without raising and returns at most budget indices.
Claim_C5 ==
    (Ended /\ ScmiIs("logdetcmi") /\ EmbeddingTypeValid /\ ~HasKey("lambdaVal")
        /\ budget \in 1..unlabeled_dataset /\ raised # "ExternalError")
        => (pc = "returned" /\ Len(greedyIndices) <= budget)

\* C6: with scmi_function='flcmi', a valid embedding_type, both early-stop
\* flags off and a budget not larger than the unlabeled dataset, select
\* returns exactly budget indices, all distinct and inside
\* [0, unlabeled_dataset_size).
Thm_C6 ==
    (Ended /\ ScmiIs("flcmi") /\ EmbeddingTypeValid
        /\ FlagOff("stopIfZeroGain") /\ FlagOff("stopIfNegativeGain")
        /\ budget <= unlabeled_dataset /\ raised # "ExternalError")
        => /\ pc = "returned"
           /\ Len(greedyIndices) = budget
           /\ NoRepeats(greedyIndices)
           /\ InRange(greedyIndices)
Witness_C6 ==
    /\ pc = "returned" /\ ScmiIs("flcmi")
    /\ FlagOff("stopIfZeroGain") /\ FlagOff("stopIfNegativeGain")
    /\ budget >= 2 /\ Len(greedyIndices) = budget
    /\ \E i \in DOMAIN greedyList : greedyList[i][2] <= 0

\* C7: with keep_embedding=True, after select returns the instance holds the
\* three embeddings computed in that call, each with as many rows as the
\* dataset it was computed from.
Thm_C7 ==
    (pc = "returned" /\ KeepOn) =>
        /\ Fields = ComputedFields
        /\ unlabeled_data_embedding # NoAttr /\ unlabeled_data_embedding.rows = unlabeled_dataset
        /\ query_embedding # NoAttr /\ query_embedding.rows = query_dataset
        /\ private_embedding # NoAttr /\ private_embedding.rows = private_dataset
Witness_C7 ==
    pc = "returned" /\ KeepOn /\ query_dataset # private_dataset
        /\ query_embedding.rows = query_dataset

\* C8 as stated: a select call that ends by raising leaves the instance's
\* fields as they were before the call.
Orig_C8 == [][pc' = "raised" => Fields' = Fields]_vars
\* C8 amended: a select call that ends by raising leaves the instance's
\* fields as they were before the call, except that with keep_embedding=True
\* and the three embeddings computed before the error, the three embedding
\* fields hold the embeddings computed in that call.
Thm_C8 ==
    [][/\ pc # "maximize" =>
            IF KeepOn /\ EmbeddingsComputed' THEN Fields' = ComputedFields
            ELSE Fields' = Fields
       /\ pc = "maximize" => Fields' = Fields]_vars
Witness_C8 ==
    pc = "raised" /\ KeepOn /\ raised = "UnboundLocalError" /\ Fields = ComputedFields

\* C9: the query-query, private-private and query-private kernels are built
\* exactly when scmi_function='logdetcmi', and then before the objective is
\* instantiated; the unlabeled-unlabeled, query-unlabeled and
\* private-unlabeled kernels are built in both cases.
ExtraKernelsBuilt ==
    /\ KernelBuiltBeforeObjective("query", "None")
    /\ KernelBuiltBeforeObjective("private", "None")
    /\ KernelBuiltBeforeObjective("private", "query")
NoExtraKernelBuilt ==
    /\ ~KernelBuilt("query", "None")
    /\ ~KernelBuilt("private", "None")
    /\ ~KernelBuilt("private", "query")
BaseKernelsBuilt ==
    /\ KernelBuilt("unlabeled", "None")
    /\ KernelBuilt("query", "unlabeled")
    /\ KernelBuilt("private", "unlabeled")
Claim_C9 ==
    (pc # "new" /\ ScmiSupported /\ EmbeddingTypeValid /\ raised # "ExternalError") =>
        /\ BaseKernelsBuilt
        /\ IF ScmiIs("logdetcmi") THEN ExtraKernelsBuilt ELSE NoExtraKernelBuilt

\* C10: the returned list is the sequence of first components of the pairs
\* produced by the maximizer: same length, same order, nothing dropped or
\* added.
Thm_C10 ==
    pc = "returned" =>
        /\ Len(greedyIndices) = Len(greedyList)
        /\ \A i \in DOMAIN greedyList : greedyIndices[i] = greedyList[i][1]
Witness_C10 ==
    pc = "returned" /\ Len(greedyList) >= 2 /\ greedyList[1][1] # greedyList[2][1]
        /\ greedyIndices[1] = greedyList[1][1]

====
